---- MODULE Spec2Model ----
(***************************************************************************)
(* A model of youtube-donwload/dowload.py: the menu loop, the two run      *)
(* drivers, the pair orchestrator and the helper stages, together with the *)
(* part of the file system they write (run folders, combined_video.mp4,    *)
(* the chunks folder and its chunk_<n>.mp4 files).                          *)
(*                                                                         *)
(* Durations are counted in ticks, TicksPerSec ticks to the second, so     *)
(* that int(clip.duration) truncates.  Every call into pytubefix, moviepy  *)
(* or os that can raise is a nondeterministic choice between its normal    *)
(* result and the exception; an exception outside every try block ends the *)
(* process (pc = "crashed").                                               *)
(***************************************************************************)
EXTENDS Integers, Sequences, FiniteSets, TLC

\* ----------------------------------------------------------------- bounds
MaxRuns == 2            \* driver invocations chosen from the menu
MaxTime == 1            \* wall-clock seconds that can pass
MaxPlaylist == 2        \* videos in a playlist
MaxDurUnits == 2        \* a downloaded video lasts 0..MaxDurUnits units
DurUnit == 101          \* ticks in one such unit
TicksPerSec == 2        \* resolution of clip.duration
MaxClipTicks == 12      \* SplitSpec: longest clip, in ticks
MaxChunkDuration == 4   \* SplitSpec: largest chunk_duration, in seconds
MaxStackTicks == 4      \* StackSpec: longest downloaded video, in ticks

\* ------------------------------------------------------ program constants
DefaultChunkDuration == 75

None == [kind |-> "None"]

Min(a, b) == IF a < b THEN a ELSE b
Max(a, b) == IF a < b THEN b ELSE a

VARIABLES
    state,              \* menu state: Menu, SinglePair, Playlists, Exit
    pc,                 \* position of the process inside main and its callees
    choice,             \* the last menu input read
    now,                \* wall clock, in seconds
    runs,               \* driver invocations so far
    run_dirs,           \* run_dirs[i]: the folder create_output_folder gave run i
    output_folder,      \* the driver's local output_folder
    fs,                 \* the file system below the working directory
    top_playlist,       \* process_playlists: top_playlist.video_urls (None before)
    bottom_playlist,    \* process_playlists: bottom_playlist.video_urls
    k,                  \* process_playlists: pairs taken from zip so far
    calls,              \* the process_video_pair invocations of this run, each
                        \* with how it ended ("running" until it returns)
    fetched,            \* the URLs given to download_video in this run
    pair,               \* process_video_pair's frame, kept after it returns
    sv,                 \* SplitSpec: one split_video call on its own
    st                  \* StackSpec: one stack_videos call on its own

vars == <<state, pc, choice, now, runs, run_dirs, output_folder, fs, top_playlist,
          bottom_playlist, k, calls, fetched, pair, sv, st>>

Folders == 0..MaxTime
Urls == [list : {"top", "bottom", "manual"}, idx : 1..Max(MaxPlaylist, 2)]
StageOrder == <<"fetch_top", "fetch_bottom", "stack", "makedirs", "split">>

\* --------------------------------------------------------- helper stages

\* create_output_folder: the folder name is the base and the clock read to the
\* second; a folder is named here by that second.
FolderName(timestamp) == timestamp

\* download_video: a path (here the file it names) or None; the except branch
\* turns every exception into None.
DownloadResults(url) ==
    {None} \cup
    {[kind |-> "file", url |-> url, dur |-> u * DurUnit] : u \in 0..MaxDurUnits}

\* VideoFileClip(path) on a downloaded file
VideoFileClip(file) == [kind |-> "clip", dur |-> file.dur, looped |-> FALSE]

\* clip.loop(duration=...)
loop(clip, duration) == [clip EXCEPT !.dur = duration, !.looped = TRUE]

\* adjust_video_durations with a fault: the comparison the wrong way round
adjust_video_durations_reversed(top_video, bottom_video, loopRaises) ==
    IF bottom_video.dur > top_video.dur
    THEN IF loopRaises
         THEN <<None, None>>
         ELSE <<top_video, loop(bottom_video, top_video.dur)>>
    ELSE <<top_video, bottom_video>>

\* adjust_video_durations; loopRaises: bottom_video.loop raises
adjust_video_durations(top_video, bottom_video, loopRaises) ==
    IF bottom_video.dur < top_video.dur
    THEN IF loopRaises
         THEN <<None, None>>
         ELSE <<top_video, loop(bottom_video, top_video.dur)>>
    ELSE <<top_video, bottom_video>>

\* CompositeVideoClip of the two clips: it lasts as long as the longer one
CompositeVideoClip(top_clip, bottom_clip) ==
    [kind |-> "video", dur |-> Max(top_clip.dur, bottom_clip.dur)]

\* stack_videos up to the render: what adjust_video_durations was given and gave,
\* and the composite to render (None when the function has returned None before)
stack_videos(top_video_path, bottom_video_path, openRaises, loopRaises) ==
    IF top_video_path = None \/ bottom_video_path = None \/ openRaises
    THEN [adjusted |-> None, composite |-> None]
    ELSE LET top_clip == VideoFileClip(top_video_path)
             bottom_clip == VideoFileClip(bottom_video_path)
             adj == adjust_video_durations(top_clip, bottom_clip, loopRaises)
         IN  [adjusted |-> [kind |-> "adjusted", top_in |-> top_clip,
                            bottom_in |-> bottom_clip,
                            top_out |-> adj[1], bottom_out |-> adj[2]],
              composite |-> IF adj[1] = None \/ adj[2] = None
                            THEN None
                            ELSE CompositeVideoClip(adj[1], adj[2])]

\* int(clip.duration)
int(ticks) == ticks \div TicksPerSec

\* range(start, stop, step), in the order the for loop visits it
RECURSIVE range(_, _, _)
range(start, stop, step) ==
    IF start >= stop THEN <<>> ELSE <<start>> \o range(start + step, stop, step)

\* Chunk with a fault: end_time without the min, so the last window overruns
Chunk_no_min(start_time, total_duration, chunk_duration) ==
    [n |-> start_time \div chunk_duration + 1,
     start |-> start_time,
     end |-> start_time + chunk_duration]

\* one iteration of split_video's loop: the window and the number in the name
Chunk(start_time, total_duration, chunk_duration) ==
    [n |-> start_time \div chunk_duration + 1,
     start |-> start_time,
     end |-> Min(start_time + chunk_duration, total_duration)]

\* ExceptReturn with a fault: the except branch returns the chunks list
ExceptReturn_chunks(chunks) == chunks

\* what split_video's except branch returns, given the chunks list so far
ExceptReturn(chunks) == <<>>

\* split_video on a clip of `duration` ticks.  fail = -1: VideoFileClip raises;
\* fail = j in 1..n: write_videofile raises in the j-th iteration; otherwise
\* nothing raises.  written: the chunks rendered in full, in order; ret: the
\* list returned (each path stands for its chunk).
split_video(duration, chunk_duration, fail) ==
    LET total_duration == int(duration)
        starts == range(0, total_duration, chunk_duration)
        all == [i \in 1..Len(starts) |->
                   Chunk(starts[i], total_duration, chunk_duration)]
    IN  IF fail = -1
        THEN [written |-> <<>>, ret |-> ExceptReturn(<<>>), raised |-> TRUE,
              failing |-> None]
        ELSE IF fail \in 1..Len(all)
        THEN [written |-> SubSeq(all, 1, fail - 1),
              ret |-> ExceptReturn(SubSeq(all, 1, fail - 1)),
              raised |-> TRUE, failing |-> all[fail]]
        ELSE [written |-> all, ret |-> all, raised |-> FALSE, failing |-> None]

\* write_videofile with a fault: a file that exists is left as it is
write_videofile_keep(files, file) ==
    IF \E f \in files : f.n = file.n THEN files ELSE files \cup {file}

\* write_videofile(path): the file at that path is replaced, the others stay
write_videofile(files, file) == {f \in files : f.n # file.n} \cup {file}

\* the file chunk_<n>.mp4 that pair `id` renders for a chunk
ChunkFile(chunk, id, complete) ==
    [n |-> chunk.n, pair |-> id, start |-> chunk.start, end |-> chunk.end,
     complete |-> complete]

\* the chunks folder after the loop has rendered `chunks`, in order
RECURSIVE WriteAll(_, _, _)
WriteAll(files, chunks, id) ==
    IF chunks = <<>> THEN files
    ELSE WriteAll(write_videofile(files, ChunkFile(Head(chunks), id, TRUE)),
                  Tail(chunks), id)

\* BothFetched with a fault: the pair goes on when either download returned a path
BothFetched_either(top_video_path, bottom_video_path) ==
    ~(top_video_path = None /\ bottom_video_path = None)

\* process_video_pair line 94
BothFetched(top_video_path, bottom_video_path) ==
    ~(top_video_path = None \/ bottom_video_path = None)

\* zip(top_playlist.video_urls, bottom_playlist.video_urls)
RECURSIVE zip(_, _)
zip(xs, ys) ==
    IF xs = <<>> \/ ys = <<>> THEN <<>>
    ELSE << <<Head(xs), Head(ys)>> >> \o zip(Tail(xs), Tail(ys))

\* MenuDispatch with a fault: the else branch leaves the loop
MenuDispatch_else_exit(c) ==
    IF c = "1" THEN "SinglePair"
    ELSE IF c = "2" THEN "Playlists"
    ELSE "Exit"

\* main's if / elif chain: the menu state the choice leads to
MenuDispatch(c) ==
    IF c = "1" THEN "SinglePair"
    ELSE IF c = "2" THEN "Playlists"
    ELSE IF c = "3" THEN "Exit"
    ELSE "Menu"

\* ------------------------------------------------------------ the process

NoFiles == [dirs |-> {},
            combined |-> [f \in Folders |-> None],
            chunksDir |-> {},
            chunks |-> [f \in Folders |-> {}]]

NoPlaylist == [kind |-> "None", video_urls |-> <<>>]

Init ==
    /\ state = "Menu"
    /\ pc = "menu"
    /\ choice = ""
    /\ now = 0
    /\ runs = 0
    /\ run_dirs = <<>>
    /\ output_folder = FolderName(0)
    /\ fs = NoFiles
    /\ top_playlist = NoPlaylist
    /\ bottom_playlist = NoPlaylist
    /\ k = 0
    /\ calls = <<>>
    /\ fetched = <<>>
    /\ pair = None
    /\ sv = None
    /\ st = None

\* the frame of a call process_video_pair(top_video_url, bottom_video_url, ...)
NewPair(top_video_url, bottom_video_url) ==
    [kind |-> "pair",
     id |-> [run |-> runs, idx |-> Len(calls) + 1],
     top_url |-> top_video_url, bottom_url |-> bottom_video_url,
     top_video_path |-> None, bottom_video_path |-> None,
     stacked_video_path |-> None,
     stages |-> <<>>, adjusted |-> None, split |-> None, done |-> FALSE]

\* process_video_pair returns: to the for loop of process_playlists, or through
\* process_single_video to main's while loop
ReturnFromPair(outcome) ==
    /\ calls' = [calls EXCEPT ![Len(calls)].outcome = outcome]
    /\ IF state = "Playlists"
       THEN pc' = "loop" /\ state' = state
       ELSE pc' = "menu" /\ state' = "Menu"

Call(top_video_url, bottom_video_url) ==
    [top |-> top_video_url, bottom |-> bottom_video_url, outcome |-> "running"]

\* main: one pass of the while loop up to the call it makes
MenuInput ==
    /\ pc = "menu"
    /\ \E c \in {"1", "2", "3", "x"} :
        /\ c \in {"1", "2"} => runs < MaxRuns
        /\ choice' = c
        /\ state' = MenuDispatch(c)
        /\ pc' = CASE MenuDispatch(c) = "Menu" -> "menu"
                   [] MenuDispatch(c) = "Exit" -> "exit"
                   [] OTHER -> "create"
    /\ pair' = None
    /\ top_playlist' = NoPlaylist
    /\ bottom_playlist' = NoPlaylist
    /\ k' = 0
    /\ calls' = <<>>
    /\ fetched' = <<>>
    /\ UNCHANGED <<now, runs, run_dirs, output_folder, fs, sv, st>>

\* create_output_folder, called first by either driver
CreateOutputFolder ==
    /\ pc = "create"
    /\ \E t \in now..MaxTime :
        /\ now' = t
        /\ output_folder' = FolderName(t)
        /\ fs' = [fs EXCEPT !.dirs = @ \cup {FolderName(t)}]
        /\ run_dirs' = Append(run_dirs, FolderName(t))
    /\ runs' = runs + 1
    /\ pc' = "prompt"
    /\ UNCHANGED <<state, choice, top_playlist, bottom_playlist, k, calls, fetched,
                   pair, sv, st>>

\* os.makedirs raises in create_output_folder: nothing catches it
CreateOutputFolderRaises ==
    /\ pc = "create"
    /\ \E t \in now..MaxTime : now' = t
    /\ pc' = "crashed"
    /\ UNCHANGED <<state, choice, runs, run_dirs, output_folder, fs, top_playlist,
                   bottom_playlist, k, calls, fetched, pair, sv, st>>

\* process_single_video: the two prompts and the call of process_video_pair
PromptSingle ==
    /\ pc = "prompt" /\ state = "SinglePair"
    /\ \E t \in {u \in Urls : u.list = "manual" /\ u.idx = 1},
          b \in {u \in Urls : u.list = "manual" /\ u.idx = 2} :
        /\ pair' = NewPair(t, b)
        /\ calls' = Append(calls, Call(t, b))
    /\ pc' = "dl_top"
    /\ UNCHANGED <<state, choice, now, runs, run_dirs, output_folder, fs,
                   top_playlist, bottom_playlist, k, fetched, sv, st>>

\* process_playlists: the two prompts and the resolution of both playlists
PromptPlaylists ==
    /\ pc = "prompt" /\ state = "Playlists"
    /\ \E m, n \in 0..MaxPlaylist :
        /\ top_playlist' = [kind |-> "Playlist",
                            video_urls |-> [i \in 1..m |-> [list |-> "top", idx |-> i]]]
        /\ bottom_playlist' = [kind |-> "Playlist",
                               video_urls |-> [i \in 1..n |-> [list |-> "bottom", idx |-> i]]]
    /\ k' = 0
    /\ pc' = "loop"
    /\ UNCHANGED <<state, choice, now, runs, run_dirs, output_folder, fs, calls,
                   fetched, pair, sv, st>>

\* Playlist(...).video_urls raises (a URL that is no playlist, no network):
\* nothing catches it
ResolvePlaylistsRaises ==
    /\ pc = "prompt" /\ state = "Playlists"
    /\ pc' = "crashed"
    /\ UNCHANGED <<state, choice, now, runs, run_dirs, output_folder, fs,
                   top_playlist, bottom_playlist, k, calls, fetched, pair, sv, st>>

\* the for loop of process_playlists takes the next pair of the zip and calls
\* process_video_pair
LoopNext ==
    /\ pc = "loop"
    /\ k < Len(zip(top_playlist.video_urls, bottom_playlist.video_urls))
    /\ LET p == zip(top_playlist.video_urls, bottom_playlist.video_urls)[k + 1]
       IN  /\ pair' = NewPair(p[1], p[2])
           /\ calls' = Append(calls, Call(p[1], p[2]))
    /\ k' = k + 1
    /\ pc' = "dl_top"
    /\ UNCHANGED <<state, choice, now, runs, run_dirs, output_folder, fs,
                   top_playlist, bottom_playlist, fetched, sv, st>>

\* the zip is exhausted: process_playlists returns to main's while loop
LoopDone ==
    /\ pc = "loop"
    /\ k >= Len(zip(top_playlist.video_urls, bottom_playlist.video_urls))
    /\ state' = "Menu"
    /\ pc' = "menu"
    /\ pair' = None
    /\ UNCHANGED <<choice, now, runs, run_dirs, output_folder, fs, top_playlist,
                   bottom_playlist, k, calls, fetched, sv, st>>

\* process_video_pair line 91
DownloadTop ==
    /\ pc = "dl_top"
    /\ \E r \in DownloadResults(pair.top_url) :
        pair' = [pair EXCEPT !.top_video_path = r,
                             !.stages = Append(@, "fetch_top")]
    /\ fetched' = Append(fetched, pair.top_url)
    /\ pc' = "dl_bottom"
    /\ UNCHANGED <<state, choice, now, runs, run_dirs, output_folder, fs,
                   top_playlist, bottom_playlist, k, calls, sv, st>>

\* process_video_pair lines 92-96
DownloadBottom ==
    /\ pc = "dl_bottom"
    /\ \E r \in DownloadResults(pair.bottom_url) :
        IF BothFetched(pair.top_video_path, r)
        THEN /\ pair' = [pair EXCEPT !.bottom_video_path = r,
                                     !.stages = Append(@, "fetch_bottom")]
             /\ pc' = "stack"
             /\ UNCHANGED <<state, calls>>
        ELSE /\ pair' = [pair EXCEPT !.bottom_video_path = r,
                                     !.stages = Append(@, "fetch_bottom"),
                                     !.done = TRUE]
             /\ ReturnFromPair("failed")
    /\ fetched' = Append(fetched, pair.bottom_url)
    /\ UNCHANGED <<choice, now, runs, run_dirs, output_folder, fs, top_playlist,
                   bottom_playlist, k, sv, st>>

\* process_video_pair lines 99-103: stack_videos with every way it can end.
\* A render that raises leaves combined_video.mp4 as it was or half written.
StackVideos ==
    /\ pc = "stack"
    /\ \E openRaises, loopRaises, writeRaises, partial \in BOOLEAN :
        LET r == stack_videos(pair.top_video_path, pair.bottom_video_path,
                              openRaises, loopRaises)
            ok == r.composite # None /\ ~writeRaises
            file == IF ok
                    THEN [kind |-> "video", pair |-> pair.id, dur |-> r.composite.dur]
                    ELSE [kind |-> "partial", pair |-> pair.id, dur |-> 0]
        IN  /\ fs' = IF ok \/ (r.composite # None /\ partial)
                     THEN [fs EXCEPT !.combined[output_folder] = file]
                     ELSE fs
            /\ IF ok
               THEN /\ pair' = [pair EXCEPT
                                  !.stages = Append(@, "stack"),
                                  !.adjusted = r.adjusted,
                                  !.stacked_video_path =
                                      [kind |-> "path", folder |-> output_folder]]
                    /\ pc' = "makedirs"
                    /\ UNCHANGED <<state, calls>>
               ELSE /\ pair' = [pair EXCEPT !.stages = Append(@, "stack"),
                                            !.adjusted = r.adjusted,
                                            !.done = TRUE]
                    /\ ReturnFromPair("failed")
    /\ UNCHANGED <<choice, now, runs, run_dirs, output_folder, top_playlist,
                   bottom_playlist, k, fetched, sv, st>>

\* process_video_pair lines 106-107
MakeChunksDir ==
    /\ pc = "makedirs"
    /\ fs' = [fs EXCEPT !.chunksDir = @ \cup {output_folder}]
    /\ pair' = [pair EXCEPT !.stages = Append(@, "makedirs")]
    /\ pc' = "split"
    /\ UNCHANGED <<state, choice, now, runs, run_dirs, output_folder,
                   top_playlist, bottom_playlist, k, calls, fetched, sv, st>>

\* os.makedirs(chunks_folder) raises: nothing catches it
MakeChunksDirRaises ==
    /\ pc = "makedirs"
    /\ pair' = [pair EXCEPT !.stages = Append(@, "makedirs")]
    /\ pc' = "crashed"
    /\ UNCHANGED <<state, choice, now, runs, run_dirs, output_folder, fs,
                   top_playlist, bottom_playlist, k, calls, fetched, sv, st>>

\* process_video_pair line 108: split_video on the combined file, with every way
\* it can end.  A render that raises leaves its chunk file absent, as it was, or
\* half written.
SplitVideo ==
    /\ pc = "split"
    /\ LET clip == fs.combined[pair.stacked_video_path.folder]
           n == Len(split_video(clip.dur, DefaultChunkDuration, 0).written)
       IN  \E fail \in -1..n, partial \in BOOLEAN :
             LET r == split_video(clip.dur, DefaultChunkDuration, fail)
                 whole == WriteAll(fs.chunks[output_folder], r.written, pair.id)
                 files == IF r.failing # None /\ partial
                          THEN write_videofile(whole,
                                   ChunkFile(r.failing, pair.id, FALSE))
                          ELSE whole
             IN  /\ fs' = [fs EXCEPT !.chunks[output_folder] = files]
                 /\ pair' = [pair EXCEPT !.stages = Append(@, "split"),
                                         !.split = r, !.done = TRUE]
                 /\ ReturnFromPair(IF r.raised THEN "failed" ELSE "ok")
    /\ UNCHANGED <<choice, now, runs, run_dirs, output_folder, top_playlist,
                   bottom_playlist, k, fetched, sv, st>>

Next ==
    \/ MenuInput
    \/ CreateOutputFolder
    \/ CreateOutputFolderRaises
    \/ PromptSingle
    \/ PromptPlaylists
    \/ ResolvePlaylistsRaises
    \/ LoopNext
    \/ LoopDone
    \/ DownloadTop
    \/ DownloadBottom
    \/ StackVideos
    \/ MakeChunksDir
    \/ MakeChunksDirRaises
    \/ SplitVideo

Spec == Init /\ [][Next]_vars

\* ------------------------------------------- split_video called on its own

MainIdle ==
    /\ state = "Menu" /\ pc = "menu" /\ choice = "" /\ now = 0 /\ runs = 0
    /\ run_dirs = <<>> /\ output_folder = FolderName(0) /\ fs = NoFiles
    /\ top_playlist = NoPlaylist /\ bottom_playlist = NoPlaylist /\ k = 0
    /\ calls = <<>> /\ fetched = <<>> /\ pair = None

mainVars == <<state, pc, choice, now, runs, run_dirs, output_folder, fs,
              top_playlist, bottom_playlist, k, calls, fetched, pair>>

InitSplit ==
    /\ MainIdle
    /\ st = None
    /\ sv \in [kind : {"split"},
               duration : 0..MaxClipTicks,
               chunk_duration : 1..MaxChunkDuration,
               fail : -1..(MaxClipTicks \div TicksPerSec),
               files : {{}},
               result : {None}]

\* split_video(video_path, output_folder, chunk_duration) into an empty folder
ApplySplit ==
    /\ sv.kind = "split" /\ sv.result = None
    /\ LET r == split_video(sv.duration, sv.chunk_duration, sv.fail)
       IN  sv' = [sv EXCEPT !.result = r,
                            !.files = WriteAll(@, r.written, [run |-> 1, idx |-> 1])]
    /\ UNCHANGED <<mainVars, st>>

SplitSpec == InitSplit /\ [][ApplySplit]_vars

\* ------------------------------------------ stack_videos called on its own

StackInputs ==
    {None} \cup {[kind |-> "file", url |-> [list |-> "manual", idx |-> 1], dur |-> d] :
                    d \in 0..MaxStackTicks}

InitStack ==
    /\ MainIdle
    /\ sv = None
    /\ st \in [kind : {"stack"},
               top_video_path : StackInputs,
               bottom_video_path : StackInputs,
               openRaises : BOOLEAN,
               loopRaises : BOOLEAN,
               result : {None}]

\* stack_videos(top_video_path, bottom_video_path, output_path) up to the render
ApplyStack ==
    /\ st.kind = "stack" /\ st.result = None
    /\ st' = [st EXCEPT !.result = stack_videos(st.top_video_path, st.bottom_video_path,
                                                st.openRaises, st.loopRaises)
                                   @@ [kind |-> "stacked"]]
    /\ UNCHANGED <<mainVars, sv>>

StackSpec == InitStack /\ [][ApplyStack]_vars

\* ================================================================ claims

Ceil(T, d) == CHOOSE n \in 0..T : n * d >= T /\ (n - 1) * d < T

IsPrefix(s, t) == Len(s) <= Len(t) /\ \A i \in 1..Len(s) : s[i] = t[i]

Earlier(a, b) == a.run < b.run \/ (a.run = b.run /\ a.idx < b.idx)

SplitReturned == sv.kind = "split" /\ sv.result # None

\* C1: with T the source duration in whole seconds and d = chunk_duration > 0, a
\* split_video call in which nothing raises renders exactly ceil(T/d) chunks,
\* named chunk_1 .. chunk_n in order with no gap; the i-th covers
\* [(i-1)*d, min(i*d, T)); consecutive windows meet, their union is [0, T) and
\* none is longer than d.  A clip of 200 s with d = 75 gives 75, 75, 50.
C1_SplitPartition ==
    /\ LET c == split_video(200 * TicksPerSec, 75, 0).ret
       IN  [i \in 1..Len(c) |-> c[i].end - c[i].start] = <<75, 75, 50>>
    /\ (SplitReturned /\ ~sv.result.raised) =>
        LET T == int(sv.duration)
            d == sv.chunk_duration
            c == sv.result.ret
            n == Len(c)
        IN  /\ n = Ceil(T, d)
            /\ \A i \in 1..n :
                /\ c[i].n = i
                /\ c[i].start = (i - 1) * d
                /\ c[i].end = Min(i * d, T)
                /\ c[i].start < c[i].end
                /\ c[i].end - c[i].start <= d
            /\ \A i \in 1..(n - 1) : c[i].end = c[i + 1].start
            /\ n > 0 => (c[1].start = 0 /\ c[n].end = T)
            /\ {f.n : f \in sv.files} = 1..n
            /\ \A f \in sv.files : f = ChunkFile(c[f.n], f.pair, TRUE)

\* C1 witness: three or more chunks, the last one short, from a clip whose
\* duration is not a whole number of seconds
C1_Witness ==
    /\ SplitReturned /\ ~sv.result.raised
    /\ Len(sv.result.ret) >= 3
    /\ sv.duration % TicksPerSec # 0
    /\ LET c == sv.result.ret
       IN  c[Len(c)].end - c[Len(c)].start < sv.chunk_duration

PairActive == pair.kind = "pair"

FilesOf(id) ==
    {f \in Folders : fs.combined[f].kind # "None" /\ fs.combined[f].pair = id}
    \cup {f \in Folders : \E c \in fs.chunks[f] : c.pair = id}

\* C2: in process_video_pair both fetches are attempted, top first; stack_videos
\* is called only when both returned a path; the chunks folder is created and
\* split_video called only when stack_videos returned a path.  A pair one of
\* whose fetches returned None does nothing more: no stack_videos call, no
\* combined_video.mp4 or chunk written by it, no chunks folder created by it.
C2_StagesGated ==
    PairActive =>
        /\ IsPrefix(pair.stages, StageOrder)
        /\ (pc \in {"stack", "makedirs", "split"} \/ Len(pair.stages) >= 3) =>
               (pair.top_video_path # None /\ pair.bottom_video_path # None)
        /\ (pc \in {"makedirs", "split"} \/ Len(pair.stages) >= 4) =>
               pair.stacked_video_path # None
        /\ pair.done => Len(pair.stages) >= 2
        /\ (pair.done /\ (pair.top_video_path = None \/ pair.bottom_video_path = None)) =>
               /\ pair.stages = <<"fetch_top", "fetch_bottom">>
               /\ FilesOf(pair.id) = {}
               /\ pair.stacked_video_path = None

\* C2 witness: the top fetch returned None, the bottom fetch was still made and
\* returned a path, and the pair has returned
C2_Witness ==
    /\ PairActive /\ pair.done
    /\ pair.top_video_path = None
    /\ pair.bottom_video_path # None

\* C3 (as claimed): no exception escapes to the menu loop, whatever fails
C3_NothingFatal == pc # "crashed"

PlaylistsResolved == top_playlist.kind = "Playlist"

PairsOfRun == zip(top_playlist.video_urls, bottom_playlist.video_urls)

\* C4 (as claimed): once playlist mode is over, process_video_pair has been
\* called exactly min(m, n) times, the k-th call with the k-th URL of each
\* playlist, and no URL beyond position min(m, n) has been fetched
C4_ExactlyMinPairs ==
    (PlaylistsResolved /\ pc \in {"menu", "crashed"}) =>
        LET m == Len(top_playlist.video_urls)
            n == Len(bottom_playlist.video_urls)
        IN  /\ Len(calls) = Min(m, n)
            /\ \A i \in 1..Len(calls) :
                /\ calls[i].top = top_playlist.video_urls[i]
                /\ calls[i].bottom = bottom_playlist.video_urls[i]
            /\ \A i \in 1..Len(fetched) : fetched[i].idx <= Min(m, n)

\* C5 (as claimed): in playlist mode a pair whose stage failed aborts alone:
\* every later pair of the zip is processed to its end, and no URL is fetched
\* twice.  Stated of the states in which the process has stopped.
C5_LaterPairsProcessed ==
    /\ \A i, j \in 1..Len(fetched) : fetched[i] = fetched[j] => i = j
    /\ (PlaylistsResolved /\ pc \in {"menu", "crashed"}) =>
        \A i \in 1..Len(calls) :
            calls[i].outcome = "failed" =>
                \A j \in (i + 1)..Len(PairsOfRun) :
                    j <= Len(calls) /\ calls[j].outcome # "running"

MenuStates == {"Menu", "SinglePair", "Playlists", "Exit"}

C6_Step ==
    /\ state \in MenuStates /\ state' \in MenuStates
    /\ state # "Exit"
    /\ state = "Menu" =>
        /\ choice' = "1" => state' = "SinglePair"
        /\ choice' = "2" => state' = "Playlists"
        /\ choice' = "3" => state' = "Exit"
        /\ choice' \notin {"1", "2", "3"} =>
            /\ state' = "Menu" /\ pc' = "menu"
            /\ fs' = fs /\ run_dirs' = run_dirs /\ runs' = runs
            /\ calls' = <<>> /\ fetched' = <<>> /\ pair' = None
    /\ state \in {"SinglePair", "Playlists"} => state' \in {state, "Menu"}
    /\ state' = "Exit" => (state = "Menu" /\ choice' = "3")

\* C6: the menu is a state machine over Menu, SinglePair, Playlists and Exit
\* that starts in Menu.  From Menu "1" leads to SinglePair, "2" to Playlists,
\* "3" to Exit, and any other input leaves it in Menu with no run folder
\* created and no stage called; a driver that runs to its end leads back to
\* Menu and to no other state; Exit is entered only from Menu on "3" and no
\* step is taken from it.
C6_MenuMachine == state = "Menu" /\ [][C6_Step]_vars

\* C6 witness: back in Menu after a run, an input that is no choice was read
C6_Witness ==
    /\ state = "Menu" /\ choice = "x"
    /\ runs > 0
    /\ fs.dirs # {}

\* adjust_video_durations was called and did not raise
Adjusted ==
    /\ st.kind = "stack" /\ st.result # None
    /\ st.result.adjusted # None
    /\ st.result.adjusted.top_out # None

\* C7: when adjust_video_durations does not raise, top is returned as given; a
\* bottom shorter than top comes back lasting exactly top's duration; a bottom
\* at least as long comes back as given.  So in every composite stack_videos
\* builds the bottom clip lasts at least as long as the top clip, and the top
\* clip has the duration of the downloaded top video.
C7_DurationsReconciled ==
    Adjusted =>
        LET a == st.result.adjusted
        IN  /\ a.top_out = a.top_in
            /\ a.bottom_in.dur < a.top_in.dur => a.bottom_out.dur = a.top_in.dur
            /\ a.bottom_in.dur >= a.top_in.dur => a.bottom_out = a.bottom_in
            /\ st.result.composite # None
            /\ a.bottom_out.dur >= a.top_out.dur
            /\ a.top_out.dur = st.top_video_path.dur
            /\ st.result.composite.dur = a.bottom_out.dur

\* C7 witness: a bottom shorter than top was looped and composited
C7_Witness ==
    /\ Adjusted
    /\ st.result.adjusted.bottom_in.dur > 0
    /\ st.result.adjusted.bottom_in.dur < st.result.adjusted.top_in.dur
    /\ st.result.adjusted.bottom_out.looped
    /\ st.result.composite # None

\* the render of a chunk raised inside split_video's loop
ChunkRenderFailed ==
    /\ SplitReturned
    /\ sv.result.raised
    /\ sv.result.failing # None

\* C8 (as claimed): when the render of the k-th chunk fails after chunks
\* 1 .. k-1 were written, split_video returns the list of those k-1 paths
C8_ReturnsPartialList ==
    ChunkRenderFailed => sv.result.ret = sv.result.written

\* C8 (amended): when the render of the k-th chunk fails after chunks 1 .. k-1
\* were written, split_video returns the empty list; the k-1 chunk files stay
\* in the folder
C8_ReturnsEmptyKeepsFiles ==
    ChunkRenderFailed =>
        LET kth == sv.result.failing.n
        IN  /\ sv.result.ret = <<>>
            /\ Len(sv.result.written) = kth - 1
            /\ sv.files = {ChunkFile(sv.result.written[i], [run |-> 1, idx |-> 1], TRUE) :
                              i \in 1..(kth - 1)}
            /\ {f.n : f \in sv.files} = 1..(kth - 1)

\* C8 witness: the third chunk failed after two were written
C8_Witness ==
    /\ ChunkRenderFailed
    /\ sv.result.failing.n = 3
    /\ Cardinality(sv.files) = 2

\* process_video_pair has just returned to the playlist loop with every stage done
PairSucceeded ==
    /\ state = "Playlists" /\ pc = "loop"
    /\ PairActive /\ pair.done
    /\ calls[Len(calls)].outcome = "ok"

\* C9 (as claimed): in playlist mode, after a pair is processed successfully,
\* combined_video.mp4 is that pair's composite and chunks/ holds exactly that
\* pair's chunk_1 .. chunk_n, nothing left over from an earlier pair
C9_ChunksExactlyThisPair ==
    PairSucceeded =>
        /\ fs.combined[output_folder].kind = "video"
        /\ fs.combined[output_folder].pair = pair.id
        /\ fs.chunks[output_folder] =
               {ChunkFile(pair.split.ret[i], pair.id, TRUE) : i \in 1..Len(pair.split.ret)}

\* C9 (amended): in playlist mode, after a pair is processed successfully,
\* combined_video.mp4 is that pair's composite and chunk_1 .. chunk_n in chunks/
\* are that pair's chunks; chunks/ is not emptied, so every other file in it is
\* a chunk numbered above n that an earlier pair wrote
C9_OverwrittenNotCleared ==
    PairSucceeded =>
        LET c == pair.split.ret
        IN  /\ fs.combined[output_folder].kind = "video"
            /\ fs.combined[output_folder].pair = pair.id
            /\ output_folder \in fs.chunksDir
            /\ \A i \in 1..Len(c) :
                /\ c[i].n = i
                /\ ChunkFile(c[i], pair.id, TRUE) \in fs.chunks[output_folder]
            /\ \A f \in fs.chunks[output_folder] :
                \/ f.n <= Len(c) /\ f = ChunkFile(c[f.n], pair.id, TRUE)
                \/ f.n > Len(c) /\ Earlier(f.pair, pair.id)

\* C9 witness: the second pair of a playlist run succeeded with one chunk, and
\* chunk_2 of the first pair of the same run is still there
C9_Witness ==
    /\ PairSucceeded
    /\ pair.id.idx = 2
    /\ Len(pair.split.ret) = 1
    /\ \E f \in fs.chunks[output_folder] :
        f.n = 2 /\ f.pair = [run |-> pair.id.run, idx |-> 1]

\* C10 (as claimed): every driver invocation creates one run folder, before it
\* asks for or fetches a URL, and no two invocations get the same folder
C10_RunFolderUnique ==
    /\ Len(run_dirs) = runs
    /\ \A i \in 1..Len(run_dirs) : run_dirs[i] \in fs.dirs
    /\ pc \in {"prompt", "loop", "dl_top", "dl_bottom", "stack", "makedirs", "split"} =>
           (runs > 0 /\ output_folder = run_dirs[runs])
    /\ runs = 0 => (calls = <<>> /\ fetched = <<>>)
    /\ \A i, j \in 1..Len(run_dirs) : i # j => run_dirs[i] # run_dirs[j]

====
